---- MODULE Spec2Model ----
(***************************************************************************)
(* Model of the deployment driver of src/main.rs: the override purity gate *)
(* of main, the flake-support probe, the evaluation of the deployment data *)
(* and run_deploy with its two loops push_all_profiles and                 *)
(* deploy_all_profiles.  Every external call (probe, evaluation, push,     *)
(* deploy) is an await point: it is logged in `calls` as "pending" when it *)
(* is issued and completed by a separate return action.                    *)
(***************************************************************************)
EXTENDS Integers, Sequences, FiniteSets, TLC

VARIABLES pc, result, warned, gate_evals, purity, deploy_flake,
          supports_flakes, data, scope, ni, pi, calls,
          top_settings, node_settings, profile_settings, merged_settings

\* the settings records of one target and their merge
settings_vars == <<top_settings, node_settings, profile_settings, merged_settings>>

vars == <<pc, result, warned, gate_evals, purity, deploy_flake,
          supports_flakes, data, scope, ni, pi, calls, settings_vars>>

(* ------------------------------ bounds --------------------------------- *)

\* largest size of the deployment data: the entries of all the nodes'
\* profiles_order lists and profile maps together
MaxSize == 3

\* the node names, in the iteration order of data.nodes (the names are
\* interchangeable, so the entries of the map are named in that order)
NodeOrder == <<"n1", "n2", "n3">>
NodeNames == {NodeOrder[i] : i \in 1..Len(NodeOrder)}
ProfileNames == {"p1", "p2"}
\* Option::None of deploy_flake.node and deploy_flake.profile
None == "None"

Purities == {"Pure", "Warn", "Error", "ErrorProfile"}

(* ------------------------------ helpers -------------------------------- *)

Range(s) == {s[i] : i \in 1..Len(s)}

SeqsUpTo(S, n) == UNION {[1..k -> S] : k \in 0..n}

\* the sequences over S without a repeated element
DistinctSeqs(S) ==
    {s \in SeqsUpTo(S, Cardinality(S)) :
        \A i, j \in 1..Len(s) : i # j => s[i] # s[j]}

(* --------------------------- deployment data --------------------------- *)

\* profiles_list of push_all_profiles: the entries of profiles_order, then
\* the keys of node.profiles (in the map's iteration order) that the list
\* does not contain yet
RECURSIVE AppendMissing(_, _)
AppendMissing(list, keys) ==
    IF keys = <<>> THEN list
    ELSE AppendMissing(IF Head(keys) \in Range(list) THEN list
                       ELSE Append(list, Head(keys)),
                       Tail(keys))

\* faulty variant: the keys of the map first, then the entries of profiles_order
profiles_list_push_keys_first(node) ==
    AppendMissing(node.profiles, node.profiles_order)

profiles_list_push(node) == AppendMissing(node.profiles_order, node.profiles)

\* faulty variant: the deploy phase walks the list backwards
profiles_list_deploy_reversed(node) ==
    LET list == AppendMissing(node.profiles_order, node.profiles)
    IN  [i \in 1..Len(list) |-> list[Len(list) + 1 - i]]

\* profiles_list of deploy_all_profiles, built by the same code a second time
profiles_list_deploy(node) == AppendMissing(node.profiles_order, node.profiles)

\* faulty variant: the lookup of a profile never fails
HasProfile_any(node, profile_name) == TRUE

\* node.profiles.get(profile_name) finds a profile
HasProfile(node, profile_name) == profile_name \in Range(node.profiles)

\* A node: its name (the key of data.nodes), the keys of its profile map in
\* the map's iteration order, and its profiles_order.
NodeSize(node) == Len(node.profiles) + Len(node.profiles_order)

NodeRecs(name, budget) ==
    {x \in [name : {name}, profiles : DistinctSeqs(ProfileNames),
            profiles_order : SeqsUpTo(ProfileNames, budget)] :
        NodeSize(x) <= budget}

\* The node maps of at most `budget` entries, as the sequence of their nodes
\* in iteration order, the first of them named NodeOrder[k].
RECURSIVE NodeMaps(_, _)
NodeMaps(k, budget) ==
    IF k > Len(NodeOrder) THEN {<<>>}
    ELSE {<<>>} \cup
         UNION {{<<nd>> \o rest : rest \in NodeMaps(k + 1, budget - NodeSize(nd))} :
                nd \in NodeRecs(NodeOrder[k], budget)}

DataSet == {[nodes |-> m] : m \in NodeMaps(1, MaxSize)}

NoData == [nodes |-> <<>>]

\* faulty variant: a name that is not in the map falls back to the first node
NodeIndex_first(d, node_name) ==
    IF \E i \in 1..Len(d.nodes) : d.nodes[i].name = node_name
    THEN CHOOSE i \in 1..Len(d.nodes) : d.nodes[i].name = node_name
    ELSE IF Len(d.nodes) > 0 THEN 1 ELSE 0

\* data.nodes.get(node_name): the index of the entry, 0 when there is none
NodeIndex(d, node_name) ==
    IF \E i \in 1..Len(d.nodes) : d.nodes[i].name = node_name
    THEN CHOOSE i \in 1..Len(d.nodes) : d.nodes[i].name = node_name
    ELSE 0

(* ------------------------------ the gate ------------------------------- *)

\* faulty variant: the arm of purity Error is missing
GateOutcome_no_error_arm(p, node, profile) ==
    CASE p = "ErrorProfile" /\ profile = None -> "err_profile_required"
      [] p \in {"Warn", "Error"} /\ node = None -> "warn"
      [] OTHER -> "proceed"

\* faulty variant: the arm of purity ErrorProfile matches only when no node is given
GateOutcome_profile_arm_no_node(p, node, profile) ==
    CASE p = "ErrorProfile" /\ node = None /\ profile = None -> "err_profile_required"
      [] p = "Error" /\ node = None -> "err_node_required"
      [] p = "Warn" /\ node = None -> "warn"
      [] OTHER -> "proceed"

\* faulty variant: a warning is treated as an error
GateOutcome_warn_fails(p, node, profile) ==
    CASE p = "ErrorProfile" /\ profile = None -> "err_profile_required"
      [] p \in {"Warn", "Error"} /\ node = None -> "err_node_required"
      [] OTHER -> "proceed"

\* the match on (cmd_overrides.purity(), deploy_flake.node,
\* deploy_flake.profile) of main, first matching arm
GateOutcome(p, node, profile) ==
    CASE p = "ErrorProfile" /\ profile = None -> "err_profile_required"
      [] p = "Error" /\ node = None -> "err_node_required"
      [] p = "Warn" /\ node = None -> "warn"
      [] OTHER -> "proceed"

\* faulty variant: a profile given without a node is deployed on every node
MatchArm_profile_dropped(node_name, profile_name) ==
    CASE node_name # None /\ profile_name # None -> "single"
      [] node_name # None /\ profile_name = None -> "node"
      [] OTHER -> "all"

\* the arm of the match on (deploy_flake.node, deploy_flake.profile) of
\* run_deploy
MatchArm(node_name, profile_name) ==
    CASE node_name # None /\ profile_name # None -> "single"
      [] node_name # None /\ profile_name = None -> "node"
      [] node_name = None /\ profile_name = None -> "all"
      [] OTHER -> "unsupported"

(* ------------------------------ the log -------------------------------- *)

\* a call that takes no descriptor
NoDeployData == [node_name |-> None, profile_name |-> None]

Call(kind, node, profile) ==
    [kind |-> kind, node |-> node, profile |-> profile, status |-> "pending",
     deploy_data |-> NoDeployData]

\* the call is handed `deploy_data` (and the definitions derived from it)
WithDeployData(c, deploy_data) == [c EXCEPT !.deploy_data = deploy_data]

\* the descriptor of a target: what utils::make_deploy_data is given to build
\* it from
DeployData(top, node, profile_name, overrides) ==
    [top_settings |-> top, node |-> node, node_name |-> node.name,
     profile_name |-> profile_name, cmd_overrides |-> overrides]

\* run_deploy, single-target arm: the descriptor built once for the target
deploy_data_single(top, node, profile_name, overrides) ==
    DeployData(top, node, profile_name, overrides)

\* push_all_profiles: the descriptor built for the push of a profile
deploy_data_push(top, node, profile_name, overrides) ==
    DeployData(top, node, profile_name, overrides)

\* faulty variant: the deploy phase builds the descriptor without the overrides
deploy_data_deploy_no_overrides(top, node, profile_name, overrides) ==
    DeployData(top, node, profile_name, "Pure")

\* deploy_all_profiles: the descriptor built again for the deploy of a profile
deploy_data_deploy(top, node, profile_name, overrides) ==
    DeployData(top, node, profile_name, overrides)

\* the descriptor of the call that has just returned
LastDeployData(log) == log[Len(log)].deploy_data

\* faulty variant: the call is not awaited
Complete_not_awaited(log, ok) == log

\* the call that is awaited completes with `ok`
Complete(log, ok) ==
    [i \in 1..Len(log) |->
        IF log[i].status = "pending"
        THEN [log[i] EXCEPT !.status = IF ok THEN "ok" ELSE "err"]
        ELSE log[i]]

\* the `?` after utils::make_deploy_data(...): the descriptor of the target is
\* built, or the error ends the run
make_deploy_data(built) == IF built THEN "running" ELSE "err_deploy_data"

\* faulty variants: the error of the call is dropped
PushResult_ignored(ok) == "running"
DeployResult_ignored(ok) == "running"

\* the `?` after push_profile(...).await and after deploy_profile(...).await
PushResult(ok) == IF ok THEN "running" ELSE "err_push"
DeployResult(ok) == IF ok THEN "running" ELSE "err_deploy"

(* ------------------------------ loops ---------------------------------- *)

\* faulty variant: the one-node scope iterates every node
ScopeNodes_all(d, sc, flake) == d.nodes

\* the nodes run_deploy iterates in the one-node and all-nodes scopes
ScopeNodes(d, sc, flake) ==
    IF sc = "node" THEN <<d.nodes[NodeIndex(d, flake.node)]>>
    ELSE d.nodes

\* faulty variant: the push phase ends after its first node
PushNodesDone_first(i, nodes) == i > Len(nodes) \/ i > 1

\* `for (node_name, node) in &data.nodes` of the push phase is exhausted
PushNodesDone(i, nodes) == i > Len(nodes)
\* `for (node_name, node) in &data.nodes` of the deploy phase is exhausted
DeployNodesDone(i, nodes) == i > Len(nodes)
\* `for profile_name in profiles_list` is exhausted
ProfilesDone(j, list) == j > Len(list)

(* ----------------------------- settings -------------------------------- *)

\* two of the optional fields of GenericSettings and the values they are
\* set to; None is the unset field
SettingsFields == {"ssh_user", "hostname"}
SettingsValues == {"a", "b"}
SettingsRecs == [SettingsFields -> SettingsValues \cup {None}]
NoSettings == [f \in SettingsFields |-> None]

\* merged_settings.merge(other): a field that is set is kept, an unset field
\* takes the value of `other`
Merge(self, other) ==
    [f \in SettingsFields |-> IF self[f] # None THEN self[f] ELSE other[f]]

\* faulty variant: the most specific level is taken first
merged_settings_push_specific_first(top, node, profile) ==
    Merge(Merge(profile, node), top)

\* faulty variant: the profile level is merged before the node level
merged_settings_push_profile_first(top, node, profile) ==
    Merge(Merge(top, profile), node)

\* merged_settings of push_all_profiles: the clone of top_settings, merged
\* with the node's settings, then with the profile's
merged_settings_push(top, node, profile) == Merge(Merge(top, node), profile)

\* merged_settings of deploy_all_profiles
merged_settings_deploy(top, node, profile) == Merge(Merge(top, node), profile)

(* ------------------------------ Init ----------------------------------- *)

Init ==
    /\ pc = "start"
    /\ result = "running"
    /\ warned = FALSE
    /\ gate_evals = 0
    /\ purity \in Purities
    /\ deploy_flake \in [node : NodeNames \cup {None},
                         profile : ProfileNames \cup {None}]
    /\ supports_flakes = FALSE
    /\ data = NoData
    /\ scope = "none"
    /\ ni = 0
    /\ pi = 0
    /\ calls = <<>>
    /\ top_settings = NoSettings
    /\ node_settings = NoSettings
    /\ profile_settings = NoSettings
    /\ merged_settings = NoSettings

(* ------------------------------ main ----------------------------------- *)

\* main, lines 329-343: the purity gate, then the flake-support probe is
\* issued
main_gate ==
    /\ pc = "start"
    /\ UNCHANGED settings_vars
    /\ gate_evals' = gate_evals + 1
    /\ LET out == GateOutcome(purity, deploy_flake.node, deploy_flake.profile)
       IN  IF out \in {"err_profile_required", "err_node_required"}
           THEN /\ result' = out
                /\ pc' = "done"
                /\ UNCHANGED <<warned, calls>>
           ELSE /\ warned' = (out = "warn")
                /\ pc' = "probe"
                /\ calls' = Append(calls, Call("probe", None, None))
                /\ UNCHANGED result
    /\ UNCHANGED <<purity, deploy_flake, supports_flakes, data, scope, ni, pi>>

\* test_flake_support returns: an error of the spawn ends main, otherwise the
\* evaluation of the deployment data is issued
test_flake_support ==
    /\ pc = "probe"
    /\ UNCHANGED settings_vars
    /\ \E ok \in BOOLEAN, flakes \in BOOLEAN :
          /\ calls' = IF ok
                      THEN Append(Complete(calls, TRUE), Call("eval", None, None))
                      ELSE Complete(calls, FALSE)
          /\ IF ok
             THEN /\ supports_flakes' = flakes
                  /\ pc' = "eval"
                  /\ UNCHANGED result
             ELSE /\ flakes = FALSE
                  /\ result' = "err_probe"
                  /\ pc' = "done"
                  /\ UNCHANGED supports_flakes
    /\ UNCHANGED <<warned, gate_evals, purity, deploy_flake, data, scope, ni, pi>>

\* faulty variant: the evaluation may be made again and replace the data
get_deployment_data_again ==
    /\ pc = "eval"
    /\ UNCHANGED settings_vars
    /\ \/ /\ calls' = Complete(calls, FALSE)
          /\ result' = "err_eval"
          /\ pc' = "done"
          /\ UNCHANGED data
       \/ /\ calls' = Complete(calls, TRUE)
          /\ data' \in DataSet
          /\ pc' = "run_deploy"
          /\ UNCHANGED result
       \/ /\ calls' = Append(Complete(calls, TRUE), Call("eval", None, None))
          /\ data' \in DataSet
          /\ pc' = "eval"
          /\ UNCHANGED result
    /\ UNCHANGED <<warned, gate_evals, purity, deploy_flake, supports_flakes,
                   scope, ni, pi>>

\* get_deployment_data returns: a failure ends main, otherwise run_deploy is
\* entered with the data
get_deployment_data ==
    /\ pc = "eval"
    /\ UNCHANGED settings_vars
    /\ \/ /\ calls' = Complete(calls, FALSE)
          /\ result' = "err_eval"
          /\ pc' = "done"
          /\ UNCHANGED data
       \/ /\ calls' = Complete(calls, TRUE)
          /\ data' \in DataSet
          /\ pc' = "run_deploy"
          /\ UNCHANGED result
    /\ UNCHANGED <<warned, gate_evals, purity, deploy_flake, supports_flakes,
                   scope, ni, pi>>

(* ---------------------------- run_deploy ------------------------------- *)

\* the match on (deploy_flake.node, deploy_flake.profile) with the lookups
\* of its arms; the (Some, Some) arm builds the descriptor of its target and
\* issues the push
run_deploy ==
    /\ pc = "run_deploy"
    /\ UNCHANGED settings_vars
    /\ LET node_name == deploy_flake.node
           profile_name == deploy_flake.profile
           idx == NodeIndex(data, node_name)
           arm == MatchArm(node_name, profile_name)
       IN  CASE arm = "single" ->
                  IF idx = 0
                  THEN /\ result' = "err_no_node"
                       /\ pc' = "done"
                       /\ UNCHANGED <<scope, ni, pi, calls>>
                  ELSE IF ~HasProfile(data.nodes[idx], profile_name)
                  THEN /\ result' = "err_no_profile"
                       /\ pc' = "done"
                       /\ UNCHANGED <<scope, ni, pi, calls>>
                  ELSE \E built \in BOOLEAN :
                       /\ scope' = "single"
                       /\ UNCHANGED <<ni, pi>>
                       /\ IF make_deploy_data(built) # "running"
                          THEN /\ result' = make_deploy_data(built)
                               /\ pc' = "done"
                               /\ UNCHANGED calls
                          ELSE /\ pc' = "pushing"
                               /\ calls' = Append(calls,
                                      WithDeployData(
                                          Call("push", node_name, profile_name),
                                          deploy_data_single(top_settings,
                                              data.nodes[idx], profile_name,
                                              purity)))
                               /\ UNCHANGED result
             [] arm = "node" ->
                  IF idx = 0
                  THEN /\ result' = "err_no_node"
                       /\ pc' = "done"
                       /\ UNCHANGED <<scope, ni, pi, calls>>
                  ELSE /\ scope' = "node"
                       /\ pc' = "push_loop"
                       /\ ni' = 1
                       /\ pi' = 1
                       /\ UNCHANGED <<result, calls>>
             [] arm = "all" ->
                  /\ scope' = "all"
                  /\ pc' = "push_loop"
                  /\ ni' = 1
                  /\ pi' = 1
                  /\ UNCHANGED <<result, calls>>
             [] OTHER ->
                  /\ result' = "err_unsupported"
                  /\ pc' = "done"
                  /\ UNCHANGED <<scope, ni, pi, calls>>
    /\ UNCHANGED <<warned, gate_evals, purity, deploy_flake, supports_flakes, data>>

\* one step of the push phase: the node loop of run_deploy and the profile
\* loop of push_all_profiles up to the next push_profile call
push_all_profiles ==
    /\ pc = "push_loop"
    /\ UNCHANGED settings_vars
    /\ LET nodes == ScopeNodes(data, scope, deploy_flake)
       IN  IF PushNodesDone(ni, nodes)
           THEN /\ pc' = "deploy_loop"
                /\ ni' = 1
                /\ pi' = 1
                /\ UNCHANGED <<result, calls>>
           ELSE LET node == nodes[ni]
                    list == profiles_list_push(node)
                IN  IF ProfilesDone(pi, list)
                    THEN /\ ni' = ni + 1
                         /\ pi' = 1
                         /\ UNCHANGED <<pc, result, calls>>
                    ELSE IF ~HasProfile(node, list[pi])
                    THEN /\ result' = "err_no_profile"
                         /\ pc' = "done"
                         /\ UNCHANGED <<ni, pi, calls>>
                    ELSE \E built \in BOOLEAN :
                         /\ UNCHANGED <<ni, pi>>
                         /\ IF make_deploy_data(built) # "running"
                            THEN /\ result' = make_deploy_data(built)
                                 /\ pc' = "done"
                                 /\ UNCHANGED calls
                            ELSE /\ calls' = Append(calls,
                                      WithDeployData(
                                          Call("push", node.name, list[pi]),
                                          deploy_data_push(top_settings, node,
                                                           list[pi], purity)))
                                 /\ pc' = "pushing"
                                 /\ UNCHANGED result
    /\ UNCHANGED <<warned, gate_evals, purity, deploy_flake, supports_flakes,
                   data, scope>>

\* faulty variant: a failed push of the loops is made again
push_profile_return_retry ==
    /\ pc = "pushing"
    /\ UNCHANGED settings_vars
    /\ \E ok \in BOOLEAN :
          LET res == PushResult(ok)
          IN  IF res # "running" /\ scope = "single"
              THEN /\ calls' = Complete(calls, ok)
                   /\ result' = res
                   /\ pc' = "done"
                   /\ UNCHANGED <<ni, pi>>
              ELSE IF res # "running"
              THEN /\ calls' = Complete(calls, ok)
                   /\ pc' = "push_loop"
                   /\ UNCHANGED <<result, ni, pi>>
              ELSE IF scope = "single"
              THEN /\ calls' = Append(Complete(calls, ok),
                                      WithDeployData(
                                          Call("deploy", deploy_flake.node,
                                               deploy_flake.profile),
                                          LastDeployData(calls)))
                   /\ pc' = "deploying"
                   /\ UNCHANGED <<result, ni, pi>>
              ELSE /\ calls' = Complete(calls, ok)
                   /\ pi' = pi + 1
                   /\ pc' = "push_loop"
                   /\ UNCHANGED <<result, ni>>
    /\ UNCHANGED <<warned, gate_evals, purity, deploy_flake, supports_flakes,
                   data, scope>>

\* push_profile returns; in the single-target scope the deploy of the target
\* is issued next
push_profile_return ==
    /\ pc = "pushing"
    /\ UNCHANGED settings_vars
    /\ \E ok \in BOOLEAN :
          LET res == PushResult(ok)
          IN  IF res # "running"
              THEN /\ calls' = Complete(calls, ok)
                   /\ result' = res
                   /\ pc' = "done"
                   /\ UNCHANGED <<ni, pi>>
              ELSE IF scope = "single"
              THEN /\ calls' = Append(Complete(calls, ok),
                                      WithDeployData(
                                          Call("deploy", deploy_flake.node,
                                               deploy_flake.profile),
                                          LastDeployData(calls)))
                   /\ pc' = "deploying"
                   /\ UNCHANGED <<result, ni, pi>>
              ELSE /\ calls' = Complete(calls, ok)
                   /\ pi' = pi + 1
                   /\ pc' = "push_loop"
                   /\ UNCHANGED <<result, ni>>
    /\ UNCHANGED <<warned, gate_evals, purity, deploy_flake, supports_flakes,
                   data, scope>>

\* one step of the deploy phase: the node loop of run_deploy and the profile
\* loop of deploy_all_profiles up to the next deploy_profile call
deploy_all_profiles ==
    /\ pc = "deploy_loop"
    /\ UNCHANGED settings_vars
    /\ LET nodes == ScopeNodes(data, scope, deploy_flake)
       IN  IF DeployNodesDone(ni, nodes)
           THEN /\ pc' = "done"
                /\ result' = "ok"
                /\ UNCHANGED <<ni, pi, calls>>
           ELSE LET node == nodes[ni]
                    list == profiles_list_deploy(node)
                IN  IF ProfilesDone(pi, list)
                    THEN /\ ni' = ni + 1
                         /\ pi' = 1
                         /\ UNCHANGED <<pc, result, calls>>
                    ELSE IF ~HasProfile(node, list[pi])
                    THEN /\ result' = "err_no_profile"
                         /\ pc' = "done"
                         /\ UNCHANGED <<ni, pi, calls>>
                    ELSE \E built \in BOOLEAN :
                         /\ UNCHANGED <<ni, pi>>
                         /\ IF make_deploy_data(built) # "running"
                            THEN /\ result' = make_deploy_data(built)
                                 /\ pc' = "done"
                                 /\ UNCHANGED calls
                            ELSE /\ calls' = Append(calls,
                                      WithDeployData(
                                          Call("deploy", node.name, list[pi]),
                                          deploy_data_deploy(top_settings, node,
                                                             list[pi], purity)))
                                 /\ pc' = "deploying"
                                 /\ UNCHANGED result
    /\ UNCHANGED <<warned, gate_evals, purity, deploy_flake, supports_flakes,
                   data, scope>>

\* deploy_profile returns
deploy_profile_return ==
    /\ pc = "deploying"
    /\ UNCHANGED settings_vars
    /\ \E ok \in BOOLEAN :
          LET res == DeployResult(ok)
          IN  /\ calls' = Complete(calls, ok)
              /\ IF res # "running"
                 THEN /\ result' = res
                      /\ pc' = "done"
                      /\ UNCHANGED <<ni, pi>>
                 ELSE IF scope = "single"
                 THEN /\ result' = "ok"
                      /\ pc' = "done"
                      /\ UNCHANGED <<ni, pi>>
                 ELSE /\ pi' = pi + 1
                      /\ pc' = "deploy_loop"
                      /\ UNCHANGED <<result, ni>>
    /\ UNCHANGED <<warned, gate_evals, purity, deploy_flake, supports_flakes,
                   data, scope>>

Next ==
    \/ main_gate
    \/ test_flake_support
    \/ get_deployment_data
    \/ run_deploy
    \/ push_all_profiles
    \/ push_profile_return
    \/ deploy_all_profiles
    \/ deploy_profile_return

Spec == Init /\ [][Next]_vars

\* every external call returns and main runs on until it returns
SpecFair == Spec /\ WF_vars(Next)

(* ----------------- the merge of the settings of a target --------------- *)

\* the settings of one target of the loops: any three records
InitMerge ==
    /\ pc = "merge_push"
    /\ result = "running"
    /\ warned = FALSE
    /\ gate_evals = 0
    /\ purity = "Pure"
    /\ deploy_flake = [node |-> None, profile |-> None]
    /\ supports_flakes = FALSE
    /\ data = NoData
    /\ scope = "all"
    /\ ni = 1
    /\ pi = 1
    /\ calls = <<>>
    /\ top_settings \in SettingsRecs
    /\ node_settings \in SettingsRecs
    /\ profile_settings \in SettingsRecs
    /\ merged_settings = NoSettings

\* push_all_profiles, lines 82-84
push_merge ==
    /\ pc = "merge_push"
    /\ merged_settings' = merged_settings_push(top_settings, node_settings,
                                               profile_settings)
    /\ pc' = "merge_deploy"
    /\ UNCHANGED <<result, warned, gate_evals, purity, deploy_flake,
                   supports_flakes, data, scope, ni, pi, calls,
                   top_settings, node_settings, profile_settings>>

\* deploy_all_profiles, lines 134-136
deploy_merge ==
    /\ pc = "merge_deploy"
    /\ merged_settings' = merged_settings_deploy(top_settings, node_settings,
                                                 profile_settings)
    /\ pc' = "merged"
    /\ UNCHANGED <<result, warned, gate_evals, purity, deploy_flake,
                   supports_flakes, data, scope, ni, pi, calls,
                   top_settings, node_settings, profile_settings>>

NextMerge == push_merge \/ deploy_merge

SpecMerge == InitMerge /\ [][NextMerge]_vars

TypeOK ==
    /\ pc \in {"start", "probe", "eval", "run_deploy", "push_loop", "pushing",
               "deploy_loop", "deploying", "done"}
    /\ scope \in {"none", "single", "node", "all"}
    /\ (pc = "done") = (result # "running")

(* ----------------------- vocabulary of the claims ---------------------- *)

\* the indices of the calls of one kind, and the calls in log order
IsPush(i) == calls[i].kind = "push"
IsDeploy(i) == calls[i].kind = "deploy"
KindCalls(kind) == SelectSeq(calls, LAMBDA c : c.kind = kind)
Pushes == KindCalls("push")
Deploys == KindCalls("deploy")
Target(c) == <<c.node, c.profile>>
Targets(log) == [i \in 1..Len(log) |-> Target(log[i])]

\* the (node, profile) pairs of a node of the data
NodePairs(node) == {<<node.name, p>> : p \in Range(node.profiles)}
AllPairs == UNION {NodePairs(data.nodes[i]) : i \in 1..Len(data.nodes)}

\* the targets the run selects, by its scope
SelectedPairs ==
    CASE scope = "single" -> {<<deploy_flake.node, deploy_flake.profile>>}
      [] scope = "node" -> {t \in AllPairs : t[1] = deploy_flake.node}
      [] scope = "all" -> AllPairs
      [] OTHER -> {}

\* the nodes the run selects in the one-node and all-nodes scopes
SelectedNodes ==
    CASE scope = "node" -> {data.nodes[i] : i \in {j \in 1..Len(data.nodes) :
                                                  data.nodes[j].name = deploy_flake.node}}
      [] scope = "all" -> Range(data.nodes)
      [] OTHER -> {}

\* the profile names of the calls of `log` that are for node `name`
ProfilesOf(log, name) ==
    LET sel == SelectSeq(log, LAMBDA c : c.node = name)
    IN  [i \in 1..Len(sel) |-> sel[i].profile]

\* the names of profiles_order that are not in the profile map
MissingNames(node) == Range(node.profiles_order) \ Range(node.profiles)
\* the profiles of the map that profiles_order does not list
Unlisted(node) == Range(node.profiles) \ Range(node.profiles_order)

(* ------------------------------- C1 ------------------------------------ *)

\* C1: whenever the Deployer is invoked, the Pusher has already completed
\* successfully for every selected target, and every Pusher call of the run
\* lies before it and has succeeded: no deploy precedes or interleaves with a
\* push.
C1_PushBeforeDeploy ==
    \A i \in 1..Len(calls) :
        IsDeploy(i) =>
            /\ \A t \in SelectedPairs :
                  \E j \in 1..(i - 1) :
                      IsPush(j) /\ Target(calls[j]) = t /\ calls[j].status = "ok"
            /\ \A j \in 1..Len(calls) :
                  IsPush(j) => j < i /\ calls[j].status = "ok"

\* a deploy is invoked in the all-nodes scope with targets on two nodes
C1_Witness ==
    /\ scope = "all"
    /\ Deploys # <<>>
    /\ \E s, t \in SelectedPairs : s[1] # t[1]

(* ------------------------------- C2 ------------------------------------ *)

\* C2: a failed push is the last call of the run: the run has ended with the
\* push error, every call of the run before it is a push that succeeded (and
\* stays so), and no deploy was invoked.
C2_PushFailFast ==
    \A i \in 1..Len(calls) :
        (IsPush(i) /\ calls[i].status = "err") =>
            /\ i = Len(calls)
            /\ pc = "done"
            /\ result = "err_push"
            /\ Deploys = <<>>
            /\ \A j \in 1..(i - 1) : IsPush(j) => calls[j].status = "ok"

\* three nodes, the push of the second node failed after the first node's
\* push succeeded
C2_Witness ==
    /\ scope = "all"
    /\ Len(data.nodes) = 3
    /\ AllPairs = {<<"n1", "p1">>, <<"n2", "p1">>, <<"n3", "p1">>}
    /\ Len(Pushes) = 2
    /\ Pushes[1].node = "n1" /\ Pushes[1].status = "ok"
    /\ Pushes[2].node = "n2" /\ Pushes[2].status = "err"

(* ------------------------------- C3 ------------------------------------ *)

\* C3: a failed deploy is the last call of the run: the run has ended with
\* the deploy error, every selected target has been pushed successfully, the
\* deploys before it succeeded, and the deploys made are the first targets of
\* the push sequence, in its order (the later ones are pushed, not deployed).
C3_DeployFailFast ==
    \A i \in 1..Len(calls) :
        (IsDeploy(i) /\ calls[i].status = "err") =>
            /\ i = Len(calls)
            /\ pc = "done"
            /\ result = "err_deploy"
            /\ \A t \in SelectedPairs :
                  \E j \in 1..Len(Pushes) : Target(Pushes[j]) = t
            /\ \A j \in 1..Len(Pushes) : Pushes[j].status = "ok"
            /\ \A j \in 1..(Len(Deploys) - 1) : Deploys[j].status = "ok"
            /\ Len(Deploys) <= Len(Pushes)
            /\ Targets(Deploys) = SubSeq(Targets(Pushes), 1, Len(Deploys))

\* the second of three deploys failed
C3_Witness ==
    /\ Len(Pushes) = 3
    /\ Len(Deploys) = 2
    /\ Deploys[2].status = "err"

(* ------------------------------- C4 ------------------------------------ *)

\* C4: in a run that ends in success the sequence of targets handed to the
\* Deployer is the sequence of targets handed to the Pusher.
C4_SameOrder ==
    result = "ok" => Targets(Deploys) = Targets(Pushes)

\* a successful run over all nodes in which a node's second profile differs
\* from its first
C4_Witness ==
    /\ result = "ok"
    /\ scope = "all"
    /\ \E i \in 1..(Len(Pushes) - 1) :
          /\ Pushes[i].node = Pushes[i + 1].node
          /\ Pushes[i].profile # Pushes[i + 1].profile

(* ------------------------------- C5 ------------------------------------ *)

\* `s` follows the order of `node`: its first entries are those of
\* profiles_order in the listed order, the entries after them are distinct
\* profiles of the map that profiles_order does not list
FollowsOrder(s, node) ==
    /\ \A i \in 1..Len(s) :
          IF i <= Len(node.profiles_order)
          THEN s[i] = node.profiles_order[i]
          ELSE s[i] \in Unlisted(node)
    /\ \A i, j \in 1..Len(s) :
          (Len(node.profiles_order) < i /\ i < j) => s[i] # s[j]

\* C5: in the one-node and all-nodes scopes the profiles of every node are
\* pushed, and deployed, in the order: the entries of profiles_order as
\* listed, then the profiles of the map that profiles_order does not list;
\* in a successful run all of them.
C5_ProfileOrder ==
    \A node \in SelectedNodes :
        LET pushed == ProfilesOf(Pushes, node.name)
            deployed == ProfilesOf(Deploys, node.name)
            full == Len(node.profiles_order) + Cardinality(Unlisted(node))
        IN  /\ FollowsOrder(pushed, node)
            /\ FollowsOrder(deployed, node)
            /\ result = "ok" => Len(pushed) = full /\ Len(deployed) = full

\* a successful run in which a node has a listed and an unlisted profile
C5_Witness ==
    /\ result = "ok"
    /\ \E node \in SelectedNodes :
          /\ node.profiles_order # <<>>
          /\ Unlisted(node) # {}

(* ------------------------------- C6 ------------------------------------ *)

\* the calls of each node are next to each other in `log`
Contiguous(log) ==
    \A i, j, k \in 1..Len(log) :
        (i < j /\ j < k /\ log[i].node = log[k].node) => log[j].node = log[i].node

\* C6: no target outside the selection is ever pushed or deployed; a
\* successful run has pushed and deployed exactly the selected targets (all
\* pairs of the data, the profiles of the given node, or the given pair),
\* each node's profiles next to each other.
C6_Coverage ==
    /\ Range(Targets(Pushes)) \subseteq SelectedPairs
    /\ Range(Targets(Deploys)) \subseteq SelectedPairs
    /\ result = "ok" =>
          /\ Range(Targets(Pushes)) = SelectedPairs
          /\ Range(Targets(Deploys)) = SelectedPairs
          /\ Contiguous(Pushes)
          /\ Contiguous(Deploys)
          /\ scope = "single" =>
                /\ Targets(Pushes) = <<<<deploy_flake.node, deploy_flake.profile>>>>
                /\ Targets(Deploys) = Targets(Pushes)

\* a successful one-node run on data that has targets on another node too
C6_Witness ==
    /\ result = "ok"
    /\ scope = "node"
    /\ SelectedPairs # {}
    /\ AllPairs \ SelectedPairs # {}

(* ------------------------------- C7 ------------------------------------ *)

NumCalls(log, t) == Cardinality({i \in 1..Len(log) : Target(log[i]) = t})

\* C7: in a run that ends in success every selected pair is handed to the
\* Pusher exactly once and to the Deployer exactly once.
C7_ExactlyOnce ==
    result = "ok" =>
        \A t \in SelectedPairs :
            NumCalls(Pushes, t) = 1 /\ NumCalls(Deploys, t) = 1

(* ------------------------------- C8 ------------------------------------ *)

\* C8 as stated: a name of profiles_order that is not in the profile map
\* causes no failure: the loops over the profile lists never end the run with
\* a lookup failure.
C8_MissingIgnored ==
    scope \in {"node", "all"} => result # "err_no_profile"

\* C8 as amended: in the one-node and all-nodes scopes a name of
\* profiles_order that is not in the node's profile map is never handed to
\* the Pusher or the Deployer, and it ends the run with a lookup failure when
\* the push loop reaches it: a run that selects such a node never succeeds
\* and never invokes the Deployer, and a run ended by the lookup failure
\* stands at such a name with every push made before it succeeded.
C8_MissingFails ==
    scope \in {"node", "all"} =>
        /\ \A i \in 1..Len(calls) :
              (IsPush(i) \/ IsDeploy(i)) => Target(calls[i]) \in AllPairs
        /\ (\E node \in SelectedNodes : MissingNames(node) # {}) =>
              /\ result # "ok"
              /\ Deploys = <<>>
        /\ result = "err_no_profile" =>
              /\ Deploys = <<>>
              /\ \A j \in 1..Len(Pushes) : Pushes[j].status = "ok"
              /\ \E node \in SelectedNodes :
                    /\ MissingNames(node) # {}
                    /\ LET pushed == ProfilesOf(Pushes, node.name)
                       IN  /\ Len(pushed) < Len(node.profiles_order)
                           /\ node.profiles_order[Len(pushed) + 1] \in MissingNames(node)

\* the lookup failure ended an all-nodes run after a push
C8_Witness ==
    /\ scope = "all"
    /\ result = "err_no_profile"
    /\ Pushes # <<>>

(* ------------------------------- C9 ------------------------------------ *)

GateErrors == {"err_profile_required", "err_node_required"}

\* C9: the gate is evaluated once and before every external call; with
\* purity Error and no node given the run has failed at the gate without any
\* probe, evaluator, push or deploy call.
C9_GateFirst ==
    /\ gate_evals <= 1
    /\ calls # <<>> => gate_evals = 1 /\ result \notin GateErrors
    /\ (pc # "start" /\ purity = "Error" /\ deploy_flake.node = None) =>
          /\ result = "err_node_required"
          /\ calls = <<>>
          /\ data = NoData

\* the gate rejected purity Error without a node
C9_Witness ==
    /\ pc = "done"
    /\ purity = "Error"
    /\ deploy_flake.node = None
    /\ result = "err_node_required"

(* ------------------------------- C10 ----------------------------------- *)

\* C10: after the gate, ErrorProfile without a profile has failed with
\* 'profile required' and Error without a node with 'node required',
\* whatever the other name is; Pure, Error with a node, ErrorProfile with a
\* profile and Warn with a node have neither failed at the gate nor warned.
C10_GateTable ==
    pc # "start" =>
        /\ (purity = "ErrorProfile" /\ deploy_flake.profile = None) =>
              result = "err_profile_required"
        /\ (purity = "Error" /\ deploy_flake.node = None) =>
              result = "err_node_required"
        /\ (\/ purity = "Pure"
            \/ purity = "Error" /\ deploy_flake.node # None
            \/ purity = "ErrorProfile" /\ deploy_flake.profile # None
            \/ purity = "Warn" /\ deploy_flake.node # None) =>
              result \notin GateErrors /\ ~warned

\* ErrorProfile with a node and no profile failed with 'profile required'
C10_Witness ==
    /\ purity = "ErrorProfile"
    /\ deploy_flake.node # None
    /\ deploy_flake.profile = None
    /\ result = "err_profile_required"

(* ------------------------------- C11 ----------------------------------- *)

\* C11: with purity Warn and no node given the gate has warned and has not
\* failed: the probe has been issued as the first call of the run; and the
\* warning is emitted in no other case.
C11_WarnProceeds ==
    /\ (pc # "start" /\ purity = "Warn" /\ deploy_flake.node = None) =>
          /\ warned
          /\ result \notin GateErrors
          /\ calls # <<>>
          /\ calls[1].kind = "probe"
    /\ warned => purity = "Warn" /\ deploy_flake.node = None

\* a run with purity Warn and no node that warned ended in success after
\* deploying
C11_Witness ==
    /\ purity = "Warn"
    /\ deploy_flake.node = None
    /\ warned
    /\ result = "ok"
    /\ Deploys # <<>>

(* ------------------------------- C12 ----------------------------------- *)

\* the evaluation has returned the data and run_deploy has matched the flake
Evaluated == \E i \in 1..Len(calls) : calls[i].kind = "eval" /\ calls[i].status = "ok"
Dispatched == Evaluated /\ pc # "run_deploy"

\* C12: a profile given without a node never ends in success and never has
\* a push or a deploy call; no scope is chosen for it, and run_deploy rejects
\* it as unsupported.
C12_ProfileWithoutNode ==
    (deploy_flake.node = None /\ deploy_flake.profile # None) =>
        /\ result # "ok"
        /\ Pushes = <<>>
        /\ Deploys = <<>>
        /\ scope = "none"
        /\ Dispatched => result = "err_unsupported"

\* run_deploy rejected a profile given without a node
C12_Witness ==
    /\ deploy_flake.node = None
    /\ deploy_flake.profile # None
    /\ data.nodes # <<>>
    /\ result = "err_unsupported"

(* ------------------------------- C13 ----------------------------------- *)

\* the names of the nodes of the data, and the profiles of the node named n
DataNodeNames == {data.nodes[i].name : i \in 1..Len(data.nodes)}
ProfilesOfNode(n) == {t[2] : t \in {u \in AllPairs : u[1] = n}}

\* C13: after run_deploy has matched the flake, a given node that is not in
\* the data has ended the run with the node lookup failure, and a given
\* profile that is not in the given node's map with the profile lookup
\* failure, in both cases without any push or deploy call.
C13_LookupFirst ==
    Dispatched =>
        /\ (deploy_flake.node # None /\ deploy_flake.node \notin DataNodeNames) =>
              /\ result = "err_no_node"
              /\ Pushes = <<>> /\ Deploys = <<>>
        /\ (/\ deploy_flake.node \in DataNodeNames
            /\ deploy_flake.profile # None
            /\ deploy_flake.profile \notin ProfilesOfNode(deploy_flake.node)) =>
              /\ result = "err_no_profile"
              /\ Pushes = <<>> /\ Deploys = <<>>

\* the profile of a single target is not in the map of its node, which has
\* another profile
C13_Witness ==
    /\ Dispatched
    /\ deploy_flake.node \in DataNodeNames
    /\ deploy_flake.profile # None
    /\ deploy_flake.profile \notin ProfilesOfNode(deploy_flake.node)
    /\ ProfilesOfNode(deploy_flake.node) # {}
    /\ result = "err_no_profile"

(* ------------------------------- C14 ----------------------------------- *)

\* the merge of push_all_profiles, or of deploy_all_profiles, has been made
Merged == pc \in {"merge_deploy", "merged"}

\* C14: a field that is set at the global level has the global value in the
\* merged record, whatever the node and the profile levels hold for it.
C14_GlobalWins ==
    Merged =>
        \A f \in SettingsFields :
            top_settings[f] # None => merged_settings[f] = top_settings[f]

\* a field set at all three levels, the node and the profile to another
\* value than the global level
C14_Witness ==
    /\ Merged
    /\ \E f \in SettingsFields :
          /\ top_settings[f] # None
          /\ node_settings[f] \notin {None, top_settings[f]}
          /\ profile_settings[f] \notin {None, top_settings[f]}

(* ------------------------------- C15 ----------------------------------- *)

\* C15: a field unset globally and set at the node level has the node's
\* value in the merged record, also when the profile sets it; a field unset
\* at both and set at the profile level has the profile's value; a field
\* unset at all three levels is unset.
C15_NodeThenProfile ==
    Merged =>
        \A f \in SettingsFields :
            top_settings[f] = None =>
                /\ node_settings[f] # None => merged_settings[f] = node_settings[f]
                /\ (node_settings[f] = None /\ profile_settings[f] # None) =>
                      merged_settings[f] = profile_settings[f]
                /\ (node_settings[f] = None /\ profile_settings[f] = None) =>
                      merged_settings[f] = None

\* one field set by the node and, differently, by the profile, the other
\* field set by the profile alone
C15_Witness ==
    /\ pc = "merged"
    /\ \E f, g \in SettingsFields :
          /\ top_settings[f] = None
          /\ node_settings[f] # None
          /\ profile_settings[f] \notin {None, node_settings[f]}
          /\ top_settings[g] = None
          /\ node_settings[g] = None
          /\ profile_settings[g] # None

(* ------------------------------- C16 ----------------------------------- *)

InFlight == {i \in 1..Len(calls) : calls[i].status = "pending"}

\* C16: at most one external call is in flight, and it is the last one
\* issued: every call issued before another has completed; a call is in
\* flight exactly while the run awaits it.
C16_OneInFlight ==
    /\ Cardinality(InFlight) <= 1
    /\ \A i \in InFlight : i = Len(calls)
    /\ (InFlight # {}) = (pc \in {"probe", "eval", "pushing", "deploying"})

\* the second deploy is in flight after two pushes and a deploy completed
C16_Witness ==
    /\ Len(Pushes) >= 2
    /\ Len(Deploys) = 2
    /\ Deploys[2].status = "pending"

(* ------------------------------- C17 ----------------------------------- *)

Failures == {"err_profile_required", "err_node_required", "err_probe",
             "err_eval", "err_no_node", "err_no_profile", "err_unsupported",
             "err_deploy_data", "err_push", "err_deploy"}

\* C17: a run that ended in success passed the gate, was evaluated, found
\* the names it was given, has no failed call and has pushed and deployed
\* every selected target successfully; a failed call has ended the run in a
\* failure, and a run that is over ended in success or in a failure.
C17_SuccessOnlyIf ==
    /\ result = "ok" =>
          /\ ~(purity = "ErrorProfile" /\ deploy_flake.profile = None)
          /\ ~(purity = "Error" /\ deploy_flake.node = None)
          /\ Evaluated
          /\ scope \in {"single", "node", "all"}
          /\ deploy_flake.node # None => deploy_flake.node \in DataNodeNames
          /\ deploy_flake.profile # None =>
                deploy_flake.profile \in ProfilesOfNode(deploy_flake.node)
          /\ \A node \in SelectedNodes : MissingNames(node) = {}
          /\ \A i \in 1..Len(calls) : calls[i].status = "ok"
          /\ \A t \in SelectedPairs :
                /\ \E i \in 1..Len(calls) : IsPush(i) /\ Target(calls[i]) = t
                /\ \E i \in 1..Len(calls) : IsDeploy(i) /\ Target(calls[i]) = t
    /\ (\E i \in 1..Len(calls) : calls[i].status = "err") =>
          result \in {"err_probe", "err_eval", "err_push", "err_deploy"}
    /\ result \in Failures \cup {"ok", "running"}
    /\ (pc = "done") = (result # "running")

\* a one-node run over two targets ended in success
C17_Witness ==
    /\ result = "ok"
    /\ scope = "node"
    /\ Cardinality(SelectedPairs) = 2

(* ------------------------------- C18 ----------------------------------- *)

EvalCalls == KindCalls("eval")

\* C18: the data is set by the return of the one Evaluator call and by no
\* other step; there is never a second Evaluator call, and a push or deploy
\* call is only issued after the Evaluator call has returned the data.
C18_DataReadOnly ==
    [][/\ data' # data => (pc = "eval" /\ ~Evaluated /\ Pushes = <<>>)
       /\ Len(EvalCalls') <= 1
       /\ (Pushes' # <<>> \/ Deploys' # <<>>) => (Evaluated /\ data' = data)]_vars

\* a deploy is made on the data the evaluation returned
C18_Witness ==
    /\ Evaluated
    /\ data.nodes # <<>>
    /\ Len(EvalCalls) = 1
    /\ Deploys # <<>>

(* ------------------------------- C19 ----------------------------------- *)

\* the number of entries of the profile lists of the nodes of `nodes`
RECURSIVE ListEntries(_)
ListEntries(nodes) ==
    IF nodes = <<>> THEN 0
    ELSE Len(Head(nodes).profiles_order) + Cardinality(Unlisted(Head(nodes)))
         + ListEntries(Tail(nodes))

\* N: the number of targets of the selected target list
NumSelected ==
    CASE scope = "single" -> 1
      [] scope = "node" ->
            ListEntries(SelectSeq(data.nodes, LAMBDA n : n.name = deploy_flake.node))
      [] scope = "all" -> ListEntries(data.nodes)
      [] OTHER -> 0

\* the calls of `log` are for the first targets of the selected target list,
\* one call for each
FollowsSelection(log) ==
    /\ Len(log) <= NumSelected
    /\ \A node \in SelectedNodes :
          \A i \in 1..Len(ProfilesOf(log, node.name)) :
              i <= Len(node.profiles_order) =>
                  ProfilesOf(log, node.name)[i] = node.profiles_order[i]

C20_SameDescriptor ==
    \A k \in 1..Len(Deploys) :
        /\ k <= Len(Pushes)
        /\ Target(Deploys[k]) = Target(Pushes[k])
        /\ Deploys[k].deploy_data.node_name # None
        /\ Deploys[k].deploy_data = Pushes[k].deploy_data

\* the second deploy of the loops, under overrides that are not pure
C20_Witness ==
    /\ scope \in {"node", "all"}
    /\ purity # "Pure"
    /\ Len(Deploys) = 2
    /\ Deploys[2].deploy_data.cmd_overrides = purity

====
